---- MODULE Spec2Model ----
(***************************************************************************)
(* The line lifecycle and against-the-spread (ATS) grading of the          *)
(* supercontest pick'em pool: odds ingestion into Game rows, locking,      *)
(* closing-line snapshots into TeamGameATS rows, score ingestion, ATS      *)
(* grading and the scoring of picks.                                       *)
(*                                                                         *)
(* Units.  Spreads, closing spreads and cover margins are held in half     *)
(* points (the value times two), so -6 is the spread -3.0 and 1 is +0.5;   *)
(* sportsbook lines are multiples of one half, on which the code's float   *)
(* and Decimal arithmetic is exact.  The points of a pick are held in half *)
(* points as well (2 = 1.0, 1 = 0.5, 0 = 0.0).  Instants are hours since   *)
(* 2025-09-02T00:00Z.                                                      *)
(***************************************************************************)
EXTENDS Integers, Sequences, FiniteSets, TLC

\* Python None / SQL NULL in a numeric or boolean column.
NULL == -99

\* None in a text column (line_source, ats_result, a pick's result).
NONE == "None"

\* ------------------------------------------------------------------------
\* Bounds of the model and the input values the actions draw from.
\* ------------------------------------------------------------------------

\* Operations (requests, cron runs, CLI commands) handled in one behaviour.
MaxOps == 4

\* force_week and week arguments range over 0..MaxWeek.
MaxWeek == 2

Teams == {"A", "B", "C"}

ExtIds == {"e1"}

\* Home spreads a bookmaker quotes, in half points: -3.0, +0.5.
Points == {-6, 1}

\* The instant the clock reads while the operations run: in contest week 1,
\* so that weeks 0 and 1 are lockable and week 2 is not yet.
Instants == {100}

Weeks == 0..MaxWeek

\* ------------------------------------------------------------------------
\* Odds and score events of the provider
\* ------------------------------------------------------------------------

\* A raw "point" of an outcome: a number, or text float() cannot parse.
NumPoint(p) == [ok |-> TRUE, val |-> p]

BadPoint == [ok |-> FALSE, val |-> 0]

\* An odds event whose DraftKings spreads market quotes p for the home team
\* (the away outcome is listed first, as the feed lists the underdog first).
OddsEvent(id, home, away, ct, p) ==
    [id |-> id, home_team |-> home, away_team |-> away, commence_time |-> ct,
     bookmakers |-> <<[key |-> "draftkings",
                       markets |-> <<[key |-> "spreads",
                                      outcomes |-> <<[name |-> away, point |-> NumPoint(0 - p)],
                                                     [name |-> home, point |-> NumPoint(p)]>>]>>]>>]

\* The same event with a home point that float() cannot parse.
OddsEventBad(id, home, away, ct) ==
    [id |-> id, home_team |-> home, away_team |-> away, commence_time |-> ct,
     bookmakers |-> <<[key |-> "draftkings",
                       markets |-> <<[key |-> "spreads",
                                      outcomes |-> <<[name |-> home, point |-> BadPoint]>>]>>]>>]

\* An event no bookmaker quotes.
OddsEventBare(id, home, away, ct) ==
    [id |-> id, home_team |-> home, away_team |-> away, commence_time |-> ct,
     bookmakers |-> <<>>]

\* The sides and kickoff an odds event names: a game, the same game with the
\* sides exchanged, and the game with another visitor and a later kickoff.
EventShapes == {<<"A", "B", 68>>, <<"B", "A", 68>>, <<"A", "C", 236>>}

OddsEvents ==
    {OddsEvent(id, sh[1], sh[2], sh[3], p) : id \in ExtIds, sh \in EventShapes, p \in Points}
    \cup {OddsEventBad(id, "A", "B", 68) : id \in ExtIds}
    \cup {OddsEventBare(id, "B", "A", 68) : id \in ExtIds}

\* ------------------------------------------------------------------------
\* app/services/week.py
\* ------------------------------------------------------------------------

\* The UTC offset of America/Denver: MDT until 2025-11-02T08:00Z, then MST.
DenverOffset(t) == IF t < 1472 THEN 0 - 6 ELSE 0 - 7

\* The date of an instant in Denver, in days since 2025-09-02.
DenverDate(t) == (t + DenverOffset(t)) \div 24

Max(a, b) == IF a >= b THEN a ELSE b

\* week_for_kickoff taking the date of the kickoff in UTC, the conversion to
\* Denver time left out.
week_for_kickoff_utc_date(commence_time) ==
    IF commence_time < 6
    THEN 1
    ELSE Max(1, ((commence_time \div 24) \div 7) + 1)

week_for_kickoff(commence_time) ==
    IF commence_time < 6
    THEN 1
    ELSE Max(1, (DenverDate(commence_time) \div 7) + 1)

current_week_number(now_d) ==
    IF now_d < 6
    THEN 1
    ELSE Max(1, (DenverDate(now_d) \div 7) + 1)

\* ------------------------------------------------------------------------
\* app/services/games_sync.py
\* ------------------------------------------------------------------------

is_locked(game) == game.spread_is_locked = TRUE

\* The outcomes the nested loops visit, in order: those of the spreads
\* markets of the draftkings bookmakers.
RECURSIVE SpreadOutcomesOfMarkets(_)
SpreadOutcomesOfMarkets(markets) ==
    IF markets = <<>>
    THEN <<>>
    ELSE (IF Head(markets).key = "spreads" THEN Head(markets).outcomes ELSE <<>>)
         \o SpreadOutcomesOfMarkets(Tail(markets))

RECURSIVE SpreadOutcomes(_)
SpreadOutcomes(bookmakers) ==
    IF bookmakers = <<>>
    THEN <<>>
    ELSE (IF Head(bookmakers).key = "draftkings"
          THEN SpreadOutcomesOfMarkets(Head(bookmakers).markets)
          ELSE <<>>)
         \o SpreadOutcomes(Tail(bookmakers))

RECURSIVE FirstHomePoint(_, _)
FirstHomePoint(outcomes, home) ==
    IF outcomes = <<>>
    THEN NULL
    ELSE LET o == Head(outcomes)
         IN IF o.name = home /\ "point" \in DOMAIN o
            THEN (IF o.point.ok THEN o.point.val ELSE NULL)
            ELSE FirstHomePoint(Tail(outcomes), home)

extract_home_spread_from_event(event) ==
    FirstHomePoint(SpreadOutcomes(event.bookmakers), event.home_team)

\* Game.query.filter_by(odds_event_id=ext_id): the primary keys that match.
GamesByEvent(gs, ext_id) == {i \in DOMAIN gs : gs[i].odds_event_id = ext_id}

\* Game(): every column unset, spread_is_locked defaulting to False on insert.
NewGame(id, ext_id) ==
    [id |-> id, odds_event_id |-> ext_id, week |-> NULL,
     home_team |-> NONE, away_team |-> NONE, kickoff_at |-> NULL,
     final_score_home |-> NULL, final_score_away |-> NULL,
     spread_home |-> NULL, spread_away |-> NULL,
     spread_is_locked |-> FALSE, spread_locked_at |-> NULL]

\* UpsertedGame writing spread_home only, the away side left as it was.
UpsertedGameHomeOnly(game, event, force_week) ==
    LET g1 == [game EXCEPT !.home_team = event.home_team,
                           !.away_team = event.away_team,
                           !.kickoff_at = event.commence_time]
        g2 == IF force_week # NULL THEN [g1 EXCEPT !.week = force_week] ELSE g1
        home_spread == extract_home_spread_from_event(event)
    IN IF ~is_locked(g2) /\ home_spread # NULL
       THEN [g2 EXCEPT !.spread_home = home_spread]
       ELSE g2

\* UpsertedGame without the lock check before the spread write.
UpsertedGameLockIgnored(game, event, force_week) ==
    LET g1 == [game EXCEPT !.home_team = event.home_team,
                           !.away_team = event.away_team,
                           !.kickoff_at = event.commence_time]
        g2 == IF force_week # NULL THEN [g1 EXCEPT !.week = force_week] ELSE g1
        home_spread == extract_home_spread_from_event(event)
    IN IF home_spread # NULL
       THEN [g2 EXCEPT !.spread_home = home_spread, !.spread_away = 0 - home_spread]
       ELSE g2

\* The Game row the upsert writes (the row of primary key id).
UpsertedGame(game, event, force_week) ==
    LET g1 == [game EXCEPT !.home_team = event.home_team,
                           !.away_team = event.away_team,
                           !.kickoff_at = event.commence_time]
        g2 == IF force_week # NULL THEN [g1 EXCEPT !.week = force_week] ELSE g1
        home_spread == extract_home_spread_from_event(event)
    IN IF ~is_locked(g2) /\ home_spread # NULL
       THEN [g2 EXCEPT !.spread_home = home_spread, !.spread_away = 0 - home_spread]
       ELSE g2

\* upsert_game_from_odds_event without the lookup by external id.
upsert_game_always_insert(gs, event, force_week) ==
    Append(gs, UpsertedGame(NewGame(Len(gs) + 1, event.id), event, force_week))

upsert_game_from_odds_event(gs, event, force_week) ==
    LET found == GamesByEvent(gs, event.id)
        is_new == found = {}
        id == IF is_new THEN Len(gs) + 1 ELSE CHOOSE i \in found : TRUE
        game == IF is_new THEN NewGame(id, event.id) ELSE gs[id]
        after == UpsertedGame(game, event, force_week)
    IN IF is_new THEN Append(gs, after) ELSE [gs EXCEPT ![id] = after]

\* A score event: the raw score of each named side, a number or text int()
\* cannot parse.
RawScore(v) == [ok |-> TRUE, val |-> v]

BadScore == [ok |-> FALSE, val |-> 0]

ScoreEvent(id, scores) == [id |-> id, scores |-> scores]

\* The score lines of the feed: both sides final, one side unparseable, one
\* side only.
ScoreLines ==
    {<<[name |-> "A", score |-> RawScore(s[1])], [name |-> "B", score |-> RawScore(s[2])]>> :
        s \in {<<24, 21>>, <<24, 20>>, <<21, 24>>}}
    \cup {<<[name |-> "A", score |-> BadScore], [name |-> "B", score |-> RawScore(21)]>>,
          <<[name |-> "C", score |-> RawScore(20)]>>}

ScoreEvents == {ScoreEvent(id, sc) : id \in ExtIds, sc \in ScoreLines}

\* name_to_pts.get(nm): the last parseable score the event lists for nm.
RECURSIVE name_to_pts(_, _)
name_to_pts(scores, nm) ==
    IF scores = <<>>
    THEN NULL
    ELSE LET later == name_to_pts(Tail(scores), nm)
             s == Head(scores)
         IN IF later # NULL THEN later
            ELSE IF s.name = nm /\ s.score.ok THEN s.score.val
            ELSE NULL

\* ScoredGame storing what the event gives for each side, null included.
ScoredGameStoresMissing(game, score_ev) ==
    [game EXCEPT !.final_score_home = name_to_pts(score_ev.scores, game.home_team),
                 !.final_score_away = name_to_pts(score_ev.scores, game.away_team)]

\* The Game row after update_game_scores_from_score_event.
ScoredGame(game, score_ev) ==
    LET home_pts == name_to_pts(score_ev.scores, game.home_team)
        away_pts == name_to_pts(score_ev.scores, game.away_team)
        g1 == IF home_pts # NULL /\ game.final_score_home # home_pts
              THEN [game EXCEPT !.final_score_home = home_pts] ELSE game
    IN IF away_pts # NULL /\ game.final_score_away # away_pts
       THEN [g1 EXCEPT !.final_score_away = away_pts] ELSE g1

\* Its return value: the flag changed, set by either assignment.
update_game_scores_from_score_event(game, score_ev) ==
    LET home_pts == name_to_pts(score_ev.scores, game.home_team)
        away_pts == name_to_pts(score_ev.scores, game.away_team)
    IN \/ home_pts # NULL /\ game.final_score_home # home_pts
       \/ away_pts # NULL /\ game.final_score_away # away_pts

\* import_all_lines: the loop over the fetched events, then the counters.
RECURSIVE import_all_lines(_, _, _)
import_all_lines(gs, payload, cnt) ==
    IF payload = <<>>
    THEN [games |-> gs, created |-> cnt[1], updated |-> cnt[2], skipped_locked |-> cnt[3]]
    ELSE LET ev == Head(payload)
             week == week_for_kickoff(ev.commence_time)
             found == GamesByEvent(gs, ev.id)
         IN IF Cardinality(found) > 1
            THEN import_all_lines(gs, Tail(payload), cnt)
            ELSE IF found # {} /\ is_locked(gs[CHOOSE i \in found : TRUE])
            THEN import_all_lines(gs, Tail(payload), <<cnt[1], cnt[2], cnt[3] + 1>>)
            ELSE import_all_lines(upsert_game_from_odds_event(gs, ev, week), Tail(payload),
                                  IF found # {} THEN <<cnt[1], cnt[2] + 1, cnt[3]>>
                                  ELSE <<cnt[1] + 1, cnt[2], cnt[3]>>)

\* refresh_spreads_unlocked: the same loop, kept by the code as its own copy.
RECURSIVE refresh_spreads_unlocked(_, _, _)
refresh_spreads_unlocked(gs, payload, cnt) ==
    IF payload = <<>>
    THEN [games |-> gs, created |-> cnt[1], updated |-> cnt[2], skipped_locked |-> cnt[3]]
    ELSE LET ev == Head(payload)
             week == week_for_kickoff(ev.commence_time)
             found == GamesByEvent(gs, ev.id)
         IN IF Cardinality(found) > 1
            THEN refresh_spreads_unlocked(gs, Tail(payload), cnt)
            ELSE IF found # {} /\ is_locked(gs[CHOOSE i \in found : TRUE])
            THEN refresh_spreads_unlocked(gs, Tail(payload), <<cnt[1], cnt[2], cnt[3] + 1>>)
            ELSE refresh_spreads_unlocked(upsert_game_from_odds_event(gs, ev, week), Tail(payload),
                                          IF found # {} THEN <<cnt[1], cnt[2] + 1, cnt[3]>>
                                          ELSE <<cnt[1] + 1, cnt[2], cnt[3]>>)

\* import_all_scores: the loop over the fetched score events.
RECURSIVE import_all_scores(_, _, _)
import_all_scores(gs, payload, cnt) ==
    IF payload = <<>>
    THEN [games |-> gs, updated_scores |-> cnt[1], unchanged |-> cnt[2], missing_game |-> cnt[3]]
    ELSE LET ev == Head(payload)
             found == GamesByEvent(gs, ev.id)
         IN IF Cardinality(found) > 1
            THEN import_all_scores(gs, Tail(payload), cnt)
            ELSE IF found = {}
            THEN import_all_scores(gs, Tail(payload), <<cnt[1], cnt[2], cnt[3] + 1>>)
            ELSE LET i == CHOOSE k \in found : TRUE
                 IN IF update_game_scores_from_score_event(gs[i], ev)
                    THEN import_all_scores([gs EXCEPT ![i] = ScoredGame(gs[i], ev)],
                                           Tail(payload), <<cnt[1] + 1, cnt[2], cnt[3]>>)
                    ELSE import_all_scores(gs, Tail(payload), <<cnt[1], cnt[2] + 1, cnt[3]>>)

\* The games lock_weeks_through_current selects.
LockableThroughCurrent(gs, wk_now, min_week) ==
    {i \in DOMAIN gs : /\ gs[i].week # NULL
                       /\ min_week <= gs[i].week
                       /\ gs[i].week <= wk_now
                       /\ gs[i].spread_is_locked = FALSE}

\* lock_weeks_through_current selecting by the week floor alone, the current
\* week not being an upper limit.
lock_weeks_no_upper_limit(gs, t, include_preseason) ==
    LET wk_now == current_week_number(t)
        min_week == IF include_preseason THEN 0 ELSE 1
        q == {i \in DOMAIN gs : /\ gs[i].week # NULL
                                /\ min_week <= gs[i].week
                                /\ gs[i].spread_is_locked = FALSE}
    IN IF wk_now < 0
       THEN [games |-> gs, locked |-> 0, week_now |-> wk_now]
       ELSE [games |-> [i \in DOMAIN gs |->
                          IF i \in q
                          THEN [gs[i] EXCEPT !.spread_is_locked = TRUE, !.spread_locked_at = t]
                          ELSE gs[i]],
             locked |-> Cardinality(q), week_now |-> wk_now]

\* lock_weeks_through_current storing "selected" as the lock flag of every
\* game, so that a game locked earlier and not selected again is unlocked.
lock_weeks_flag_from_selection(gs, t, include_preseason) ==
    LET wk_now == current_week_number(t)
        min_week == IF include_preseason THEN 0 ELSE 1
        q == LockableThroughCurrent(gs, wk_now, min_week)
    IN IF wk_now < 0
       THEN [games |-> gs, locked |-> 0, week_now |-> wk_now]
       ELSE [games |-> [i \in DOMAIN gs |->
                          IF i \in q
                          THEN [gs[i] EXCEPT !.spread_is_locked = TRUE, !.spread_locked_at = t]
                          ELSE [gs[i] EXCEPT !.spread_is_locked = FALSE]],
             locked |-> Cardinality(q), week_now |-> wk_now]

lock_weeks_through_current(gs, t, include_preseason) ==
    LET wk_now == current_week_number(t)
        min_week == IF include_preseason THEN 0 ELSE 1
        q == LockableThroughCurrent(gs, wk_now, min_week)
    IN IF wk_now < 0
       THEN [games |-> gs, locked |-> 0, week_now |-> wk_now]
       ELSE [games |-> [i \in DOMAIN gs |->
                          IF i \in q
                          THEN [gs[i] EXCEPT !.spread_is_locked = TRUE, !.spread_locked_at = t]
                          ELSE gs[i]],
             locked |-> Cardinality(q), week_now |-> wk_now]

\* ------------------------------------------------------------------------
\* app/services/lines_cycle.py, app/services/week_utils.py
\* ------------------------------------------------------------------------

\* datetime.weekday() of an instant in UTC (Monday 0; 2025-09-02 is a Tuesday).
Weekday(t) == ((t \div 24) + 1) % 7

RECURSIVE EarliestKickoff(_)
EarliestKickoff(payload) ==
    IF payload = <<>>
    THEN NULL
    ELSE LET rest == EarliestKickoff(Tail(payload))
             dt == Head(payload).commence_time
         IN IF rest = NULL \/ dt < rest THEN dt ELSE rest

\* The Thursday 00:00 UTC on or before the earliest kickoff of the payload
\* (or before the clock, when the payload is empty).
resolve_week1_thursday_utc(payload, fallback_now) ==
    LET earliest == EarliestKickoff(payload)
        base == IF earliest # NULL THEN earliest ELSE fallback_now
        days_back == (Weekday(base) - 3) % 7
    IN base - (24 * days_back) - (base % 24)

week_from_thursday(kickoff_at, week1_thu_utc) ==
    IF kickoff_at < week1_thu_utc
    THEN 0
    ELSE (((kickoff_at - week1_thu_utc) \div 24) \div 7) + 1

RECURSIVE UpsertAll(_, _, _)
UpsertAll(gs, events, week) ==
    IF events = <<>>
    THEN gs
    ELSE UpsertAll(upsert_game_from_odds_event(gs, Head(events), week), Tail(events), week)

ResolvedWeek(events, force_week, t) ==
    IF force_week # NULL THEN force_week
    ELSE IF events # <<>>
    THEN week_from_thursday(events[1].commence_time, resolve_week1_thursday_utc(events, t))
    ELSE 0

refresh_lines_for_key(gs, events, force_week, t) ==
    UpsertAll(gs, events, ResolvedWeek(events, force_week, t))

lock_current_week(gs, week, t) ==
    LET q == {i \in DOMAIN gs : gs[i].week = week /\ gs[i].spread_is_locked = FALSE}
    IN [games |-> [i \in DOMAIN gs |->
                     IF i \in q
                     THEN [gs[i] EXCEPT !.spread_is_locked = TRUE, !.spread_locked_at = t]
                     ELSE gs[i]],
        locked_week |-> week, games_locked |-> Cardinality(q)]

\* ------------------------------------------------------------------------
\* app/services/ats.py
\* ------------------------------------------------------------------------

\* TeamGameATS.query.filter_by(game_id=game_id, team=team_str)
RowsOf(rows, game_id, team) == {r \in rows : r.game_id = game_id /\ r.team = team}

\* Decimal(str(x or 0))
OrZero(x) == IF x = NULL THEN 0 ELSE x

NewRow(game_id, team) ==
    [game_id |-> game_id, team |-> team, opponent |-> "", is_home |-> FALSE,
     closing_spread |-> 0, line_source |-> NONE,
     points_for |-> NULL, points_against |-> NULL,
     ats_result |-> NONE, cover_margin |-> NULL]

get_or_create_row(rows, game_id, team) ==
    IF RowsOf(rows, game_id, team) # {}
    THEN CHOOSE r \in RowsOf(rows, game_id, team) : TRUE
    ELSE NewRow(game_id, team)

\* The table once the fetched-or-created row old holds the values of new.
WithRow(rows, old, new) == (rows \ {old}) \cup {new}

\* snapshot_closing_lines_for_game reading spread_home for the away row too.
snapshot_closing_lines_home_twice(rows, game, line_source) ==
    LET home == get_or_create_row(rows, game.id, game.home_team)
        rows1 == WithRow(rows, home,
                         [home EXCEPT !.opponent = game.away_team,
                                      !.is_home = TRUE,
                                      !.closing_spread = OrZero(game.spread_home),
                                      !.line_source = line_source])
        away == get_or_create_row(rows1, game.id, game.away_team)
    IN WithRow(rows1, away,
               [away EXCEPT !.opponent = game.home_team,
                            !.is_home = FALSE,
                            !.closing_spread = OrZero(game.spread_home),
                            !.line_source = line_source])

snapshot_closing_lines_for_game(rows, game, line_source) ==
    LET home == get_or_create_row(rows, game.id, game.home_team)
        rows1 == WithRow(rows, home,
                         [home EXCEPT !.opponent = game.away_team,
                                      !.is_home = TRUE,
                                      !.closing_spread = OrZero(game.spread_home),
                                      !.line_source = line_source])
        away == get_or_create_row(rows1, game.id, game.away_team)
    IN WithRow(rows1, away,
               [away EXCEPT !.opponent = game.home_team,
                            !.is_home = FALSE,
                            !.closing_spread = OrZero(game.spread_away),
                            !.line_source = line_source])

\* cover_margin, in half points.
CoverMargin(points_for, points_against, closing_spread) ==
    (2 * points_for) + closing_spread - (2 * points_against)

\* compute_ats with the push boundary counted as a cover.
compute_ats_push_as_cover(points_for, points_against, closing_spread) ==
    LET margin == CoverMargin(points_for, points_against, closing_spread)
    IN IF margin >= 0 THEN <<"COVER", margin>> ELSE <<"NO_COVER", margin>>

compute_ats(points_for, points_against, closing_spread) ==
    LET margin == CoverMargin(points_for, points_against, closing_spread)
    IN IF margin > 0 THEN <<"COVER", margin>>
       ELSE IF margin = 0 THEN <<"PUSH", margin>>
       ELSE <<"NO_COVER", margin>>

\* GradedRow storing the result without the margin.
GradedRowNoMargin(row, opponent, is_home, points_for, points_against, spread) ==
    LET closing == IF row.closing_spread = NULL THEN OrZero(spread) ELSE row.closing_spread
        res == compute_ats(points_for, points_against, closing)
    IN [row EXCEPT !.opponent = opponent, !.is_home = is_home,
                   !.points_for = points_for, !.points_against = points_against,
                   !.closing_spread = closing,
                   !.ats_result = res[1]]

\* GradedRow leaving a row that already carries a result as it is.
GradedRowKeepGraded(row, opponent, is_home, points_for, points_against, spread) ==
    LET closing == IF row.closing_spread = NULL THEN OrZero(spread) ELSE row.closing_spread
        res == compute_ats(points_for, points_against, closing)
    IN IF row.ats_result # NONE
       THEN row
       ELSE [row EXCEPT !.opponent = opponent, !.is_home = is_home,
                        !.points_for = points_for, !.points_against = points_against,
                        !.closing_spread = closing,
                        !.ats_result = res[1], !.cover_margin = res[2]]

\* The row of one side after grading.
GradedRow(row, opponent, is_home, points_for, points_against, spread) ==
    LET closing == IF row.closing_spread = NULL THEN OrZero(spread) ELSE row.closing_spread
        res == compute_ats(points_for, points_against, closing)
    IN [row EXCEPT !.opponent = opponent, !.is_home = is_home,
                   !.points_for = points_for, !.points_against = points_against,
                   !.closing_spread = closing,
                   !.ats_result = res[1], !.cover_margin = res[2]]

\* finalize_ats_for_game grading the away row with the home side's points.
finalize_ats_away_unswapped(rows, game) ==
    IF game.final_score_home = NULL \/ game.final_score_away = NULL
    THEN rows
    ELSE LET home == get_or_create_row(rows, game.id, game.home_team)
             rows1 == WithRow(rows, home,
                              GradedRow(home, game.away_team, TRUE,
                                        game.final_score_home, game.final_score_away,
                                        game.spread_home))
             away == get_or_create_row(rows1, game.id, game.away_team)
         IN WithRow(rows1, away,
                    GradedRow(away, game.home_team, FALSE,
                              game.final_score_home, game.final_score_away,
                              game.spread_away))

\* finalize_ats_for_game returning early only when both scores are missing,
\* a missing side graded as 0 points.
finalize_ats_one_score_enough(rows, game) ==
    IF game.final_score_home = NULL /\ game.final_score_away = NULL
    THEN rows
    ELSE LET home == get_or_create_row(rows, game.id, game.home_team)
             rows1 == WithRow(rows, home,
                              GradedRow(home, game.away_team, TRUE,
                                        OrZero(game.final_score_home), OrZero(game.final_score_away),
                                        game.spread_home))
             away == get_or_create_row(rows1, game.id, game.away_team)
         IN WithRow(rows1, away,
                    GradedRow(away, game.home_team, FALSE,
                              OrZero(game.final_score_away), OrZero(game.final_score_home),
                              game.spread_away))

finalize_ats_for_game(rows, game) ==
    IF game.final_score_home = NULL \/ game.final_score_away = NULL
    THEN rows
    ELSE LET home == get_or_create_row(rows, game.id, game.home_team)
             rows1 == WithRow(rows, home,
                              GradedRow(home, game.away_team, TRUE,
                                        game.final_score_home, game.final_score_away,
                                        game.spread_home))
             away == get_or_create_row(rows1, game.id, game.away_team)
         IN WithRow(rows1, away,
                    GradedRow(away, game.home_team, FALSE,
                              game.final_score_away, game.final_score_home,
                              game.spread_away))

\* ------------------------------------------------------------------------
\* app/scoring.py
\* ------------------------------------------------------------------------

\* The adjusted scores differ by a multiple of one half, so the comparison
\* with eps = 1e-9 is the comparison of the half-point integers.
game_result_against_spread(game) ==
    IF game.final_score_home = NULL \/ game.final_score_away = NULL
    THEN NONE
    ELSE LET sh0 == game.spread_home
             sa0 == game.spread_away
             sh == IF sh0 = NULL /\ sa0 # NULL THEN 0 - sa0 ELSE sh0
             sa == IF sa0 = NULL /\ sh # NULL THEN 0 - sh ELSE sa0
             adj_home == (2 * game.final_score_home)
                         + (IF sh # NULL /\ sh < 0 THEN sh ELSE 0)
             adj_away == (2 * game.final_score_away)
                         + (IF sa # NULL /\ sa < 0 THEN sa ELSE 0)
         IN IF adj_home > adj_away THEN "home"
            ELSE IF adj_away > adj_home THEN "away"
            ELSE "push"

\* points_for_pick mapping the pick to a side before it looks at the push.
points_for_pick_side_first(chosen_team, game) ==
    LET res == game_result_against_spread(game)
    IN IF res = NONE THEN NULL
       ELSE IF chosen_team # game.home_team /\ chosen_team # game.away_team THEN 0
       ELSE IF res = "push" THEN 1
       ELSE IF chosen_team = game.home_team THEN (IF res = "home" THEN 2 ELSE 0)
       ELSE (IF res = "away" THEN 2 ELSE 0)

\* 1.0 / 0.5 / 0.0 in half points, or NULL.
points_for_pick(chosen_team, game) ==
    LET res == game_result_against_spread(game)
    IN IF res = NONE THEN NULL
       ELSE IF res = "push" THEN 1
       ELSE IF chosen_team = game.home_team THEN (IF res = "home" THEN 2 ELSE 0)
       ELSE IF chosen_team = game.away_team THEN (IF res = "away" THEN 2 ELSE 0)
       ELSE 0

\* ------------------------------------------------------------------------
\* State
\* ------------------------------------------------------------------------

VARIABLES
    games,   \* the Game table: a sequence indexed by primary key
    ats,     \* the TeamGameATS table: a set of rows
    picks,   \* the Pick table: a set of rows
    txn,     \* the requests in flight: what each has read and written and
             \* not yet committed
    now,     \* the wall clock
    nops,    \* operations handled so far
    last     \* the last operation: its name, argument (a game id or a week),
             \* team and return value

vars == <<games, ats, picks, txn, now, nops, last>>

Op(op, arg, team, ret) == [op |-> op, arg |-> arg, team |-> team, ret |-> ret]

\* No request in flight.
NoTxn == <<>>

Init ==
    /\ games = <<>>
    /\ ats = {}
    /\ picks = {}
    /\ txn = NoTxn
    /\ now \in Instants
    /\ nops = 0
    /\ last = Op("init", 0, NONE, NULL)

\* The payloads one provider call returns.
OddsPayloads == {<<ev>> : ev \in OddsEvents}

ScorePayloads == {<<ev>> : ev \in ScoreEvents}

RECURSIVE SnapshotAll(_, _, _, _)
SnapshotAll(rows, gs, ids, line_source) ==
    IF ids = {}
    THEN rows
    ELSE LET i == CHOOSE k \in ids : TRUE
         IN SnapshotAll(snapshot_closing_lines_for_game(rows, gs[i], line_source),
                        gs, ids \ {i}, line_source)

RECURSIVE FinalizeAll(_, _, _)
FinalizeAll(rows, gs, ids) ==
    IF ids = {}
    THEN rows
    ELSE LET i == CHOOSE k \in ids : TRUE
         IN FinalizeAll(finalize_ats_for_game(rows, gs[i]), gs, ids \ {i})

LockedGames(gs) == {i \in DOMAIN gs : gs[i].spread_is_locked = TRUE}

FinalGames(gs) ==
    {i \in DOMAIN gs : gs[i].final_score_home # NULL /\ gs[i].final_score_away # NULL}

\* ------------------------------------------------------------------------
\* Handlers: app/admin/routes.py, app/admin_routes.py, app/leaderboard
\* ------------------------------------------------------------------------

AdminImportLines(payload) ==
    /\ nops < MaxOps
    /\ LET res == import_all_lines(games, payload, <<0, 0, 0>>)
       IN /\ games' = res.games
          /\ last' = Op("import_all_lines", 0, NONE, res.skipped_locked)
    /\ nops' = nops + 1
    /\ UNCHANGED <<ats, now, picks, txn>>

AdminRefreshSpreads(payload) ==
    /\ nops < MaxOps
    /\ LET res == refresh_spreads_unlocked(games, payload, <<0, 0, 0>>)
       IN /\ games' = res.games
          /\ last' = Op("refresh_spreads_unlocked", 0, NONE, res.skipped_locked)
    /\ nops' = nops + 1
    /\ UNCHANGED <<ats, now, picks, txn>>

\* admin_refresh_lines (force_week None), admin_refresh_lines_preseason (0)
\* and the CLI imports that force a week: every event is upserted, locked or
\* not.  The record of the operation keeps the first event's game, home team
\* and quoted home spread.
AdminRefreshLines(payload, force_week) ==
    /\ nops < MaxOps
    /\ payload # <<>>
    /\ games' = refresh_lines_for_key(games, payload, force_week, now)
    /\ last' = Op("refresh_lines_for_key",
                  CHOOSE i \in GamesByEvent(games', payload[1].id) : TRUE,
                  payload[1].home_team, extract_home_spread_from_event(payload[1]))
    /\ nops' = nops + 1
    /\ UNCHANGED <<ats, now, picks, txn>>

AdminLockWeeks ==
    /\ nops < MaxOps
    /\ LET res == lock_weeks_through_current(games, now, TRUE)
       IN /\ games' = res.games
          /\ ats' = SnapshotAll(ats, res.games, LockedGames(res.games), "Admin/Lock")
          /\ last' = Op("lock_weeks_through_current", 0, NONE, res.locked)
    /\ nops' = nops + 1
    /\ UNCHANGED <<now, picks, txn>>

AdminLockCurrentWeek(wk) ==
    /\ nops < MaxOps
    /\ LET res == lock_current_week(games, wk, now)
           locked_games == {i \in LockedGames(res.games) : res.games[i].week = wk}
       IN /\ games' = res.games
          /\ ats' = SnapshotAll(ats, res.games, locked_games, "Admin/Lock")
          /\ last' = Op("lock_current_week", wk, NONE, res.games_locked)
    /\ nops' = nops + 1
    /\ UNCHANGED <<now, picks, txn>>

AdminPrepWeek(week) ==
    /\ nops < MaxOps
    /\ LET of_week == {i \in DOMAIN games : games[i].week = week}
           gs == [i \in DOMAIN games |->
                    IF i \in of_week /\ ~is_locked(games[i])
                    THEN [games[i] EXCEPT !.spread_is_locked = TRUE]
                    ELSE games[i]]
       IN /\ games' = gs
          /\ ats' = SnapshotAll(ats, gs, of_week, "Admin/PrepWeek")
          /\ last' = Op("admin_prep_week", week, NONE, Cardinality(of_week))
    /\ nops' = nops + 1
    /\ UNCHANGED <<now, picks, txn>>

AdminImportScores(payload) ==
    /\ nops < MaxOps
    /\ LET res == import_all_scores(games, payload, <<0, 0, 0>>)
       IN /\ games' = res.games
          /\ last' = Op("import_all_scores", 0, NONE, res.updated_scores)
    /\ nops' = nops + 1
    /\ UNCHANGED <<ats, now, picks, txn>>

AdminScoresAndFinalizeWeek(week, payload) ==
    /\ nops < MaxOps
    /\ LET res == import_all_scores(games, payload, <<0, 0, 0>>)
           fin == {i \in FinalGames(res.games) : res.games[i].week = week}
       IN /\ games' = res.games
          /\ ats' = FinalizeAll(ats, res.games, fin)
          /\ last' = Op("finalize_ats_for_game", week, NONE, Cardinality(fin))
    /\ nops' = nops + 1
    /\ UNCHANGED <<now, picks, txn>>

\* admin_ats_backfill: snapshot every locked game, grade every final game.
AdminAtsBackfill ==
    /\ nops < MaxOps
    /\ games # <<>>
    /\ ats' = FinalizeAll(SnapshotAll(ats, games, LockedGames(games), "Admin/Backfill"),
                          games, FinalGames(games))
    /\ last' = Op("ats_backfill", 0, NONE, Cardinality(FinalGames(games)))
    /\ nops' = nops + 1
    /\ UNCHANGED <<games, now, picks, txn>>

\* The leaderboard's pts = points_for_pick(p, g) for a pick of chosen_team.
PointsForPick(i, chosen_team) ==
    /\ nops < MaxOps
    /\ i \in DOMAIN games
    /\ last' = Op("points_for_pick", i, chosen_team, points_for_pick(chosen_team, games[i]))
    /\ nops' = nops + 1
    /\ UNCHANGED <<games, ats, now, picks, txn>>

\* admin_refresh_lines passes force_week=None, admin_refresh_lines_preseason
\* passes force_week=0.
RouteForceWeeks == {NULL, 0}

Next ==
    \/ \E payload \in OddsPayloads : AdminImportLines(payload)
    \/ \E payload \in OddsPayloads : AdminRefreshSpreads(payload)
    \/ \E payload \in OddsPayloads, fw \in RouteForceWeeks : AdminRefreshLines(payload, fw)
    \/ AdminLockWeeks
    \/ \E wk \in Weeks : AdminLockCurrentWeek(wk)
    \/ \E wk \in Weeks : AdminPrepWeek(wk)
    \/ \E payload \in ScorePayloads : AdminImportScores(payload)
    \/ \E wk \in Weeks, payload \in ScorePayloads : AdminScoresAndFinalizeWeek(wk, payload)
    \/ AdminAtsBackfill
    \/ \E i \in 1..Cardinality(ExtIds), t \in Teams : PointsForPick(i, t)

Spec == Init /\ [][Next]_vars

\* ------------------------------------------------------------------------
\* The week resolver on its own: kickoffs and clock readings around the
\* Week 1 start (instant 6), one week later (174), the end of daylight time
\* (1472) and the week change after it (1518, 1519); 36 and 48 are
\* 2025-09-03T12:00Z and 2025-09-04T00:00Z.
\* ------------------------------------------------------------------------

WeekInstants == (0..7) \cup {36, 48} \cup (172..176) \cup (1470..1473) \cup (1516..1520)

WeekInit ==
    /\ games = <<>>
    /\ ats = {}
    /\ picks = {}
    /\ txn = NoTxn
    /\ now \in WeekInstants
    /\ nops = 0
    /\ last = Op("init", 0, NONE, NULL)

WeekForKickoff(t) ==
    /\ last' = Op("week_for_kickoff", t, NONE, week_for_kickoff(t))
    /\ UNCHANGED <<games, ats, now, nops, picks, txn>>

CurrentWeekNumber ==
    /\ last' = Op("current_week_number", now, NONE, current_week_number(now))
    /\ UNCHANGED <<games, ats, now, nops, picks, txn>>

\* week_from_thursday against the Thursday 2025-09-04T00:00Z.
WeekFromThursday(t) ==
    /\ last' = Op("week_from_thursday", t, NONE, week_from_thursday(t, 48))
    /\ UNCHANGED <<games, ats, now, nops, picks, txn>>

WeekNext ==
    \/ \E t \in WeekInstants : WeekForKickoff(t)
    \/ CurrentWeekNumber
    \/ \E t \in WeekInstants : WeekFromThursday(t)

WeekSpec == WeekInit /\ [][WeekNext]_vars

\* ------------------------------------------------------------------------
\* The batches as one request each: the provider is asked once per sport key,
\* every event runs inside its own try/except, the session flushes before
\* each query and the one commit comes after the last key.
\* ------------------------------------------------------------------------

\* fetch_odds / fetch_scores raising (requests timeout, HTTP error status).
FetchError == [ok |-> FALSE, events |-> <<>>]

\* fetch_odds / fetch_scores returning a payload.
Fetched(payload) == [ok |-> TRUE, events |-> payload]

BatchExtIds == {"e1", "e2"}

\* An odds event without a commence_time: parse_iso_z raises on it.
OddsEventNoKickoff(id) ==
    [OddsEvent(id, "A", "B", 68, 0 - 6) EXCEPT !.commence_time = NULL]

\* An odds event whose home_team is JSON null.
OddsEventNullHome(id) ==
    [OddsEvent(id, "A", "B", 68, 0 - 6) EXCEPT !.home_team = NONE]

BatchOddsEvents ==
    {OddsEvent(id, "A", "B", 68, 0 - 6) : id \in BatchExtIds}
    \cup {OddsEventBad(id, "A", "B", 68) : id \in BatchExtIds}
    \cup {OddsEventNoKickoff(id) : id \in BatchExtIds}
    \cup {OddsEventNullHome(id) : id \in BatchExtIds}

SeqsUpTo2(S) == {<<>>} \cup {<<a>> : a \in S} \cup {<<a, b>> : a \in S, b \in S}

\* What the two provider calls of one batch return: the payload of the first
\* sport key (up to two events) and that of the second (no event), either
\* call possibly raising.
OddsFetches ==
    {<<k1, k2>> : k1 \in {Fetched(pl) : pl \in SeqsUpTo2(BatchOddsEvents)} \cup {FetchError},
                  k2 \in {Fetched(<<>>), FetchError}}

\* The NOT NULL columns of Game the operations write.
RowValid(game) ==
    /\ game.week # NULL
    /\ game.home_team # NONE
    /\ game.away_team # NONE

\* The pending rows can be written: no constraint of the table is violated.
Flushable(gs) == \A i \in DOMAIN gs : RowValid(gs[i])

\* The session of a request over the committed table gs: its working copy, and
\* whether it is usable (a failed flush rolls it back and leaves it unusable
\* until rollback(), which the loops never call).
OpenSession(gs) ==
    [gs |-> gs, ok |-> TRUE, created |-> 0, updated |-> 0, skipped_locked |-> 0]

\* One iteration of the loop of import_all_lines / refresh_spreads_unlocked.
LinesEvent(s, ev, committed) ==
    IF ev.commence_time = NULL
    THEN s                                            \* parse_iso_z raises, logged
    ELSE IF ~s.ok
    THEN s                                            \* the query raises, logged
    ELSE IF ~Flushable(s.gs)
    THEN [s EXCEPT !.ok = FALSE, !.gs = committed]    \* autoflush raises, logged
    ELSE LET found == GamesByEvent(s.gs, ev.id)
         IN IF found # {} /\ is_locked(s.gs[CHOOSE i \in found : TRUE])
            THEN [s EXCEPT !.skipped_locked = @ + 1]
            ELSE LET s1 == [s EXCEPT !.gs = upsert_game_from_odds_event(
                                                s.gs, ev, week_for_kickoff(ev.commence_time))]
                 IN IF found # {}
                    THEN [s1 EXCEPT !.updated = @ + 1]
                    ELSE [s1 EXCEPT !.created = @ + 1]

RECURSIVE LinesPayload(_, _, _)
LinesPayload(s, payload, committed) ==
    IF payload = <<>>
    THEN s
    ELSE LinesPayload(LinesEvent(s, Head(payload), committed), Tail(payload), committed)

\* db.session.commit() at the end of a batch: the table it leaves and whether
\* it raised.
Commit(s, committed) ==
    IF s.ok /\ Flushable(s.gs)
    THEN [games |-> s.gs, raised |-> FALSE]
    ELSE [games |-> committed, raised |-> TRUE]

\* What a request that ran the loops returns or leaves behind.
LinesResult(s, c) ==
    [games |-> c.games, raised |-> c.raised, created |-> s.created,
     updated |-> s.updated, skipped_locked |-> s.skipped_locked]

\* FetchFailed committing what the session holds before the error leaves.
FetchFailedCommitsSession(s, committed) ==
    [games |-> Commit(s, committed).games, raised |-> TRUE]

\* A provider call raised: the error leaves the function before its commit
\* and the request's session is discarded with what it held.
FetchFailed(s, committed) ==
    [games |-> committed, raised |-> TRUE]

\* The loop over the sport keys, then the commit.
RECURSIVE LinesKeys(_, _, _)
LinesKeys(s, fetched, committed) ==
    IF fetched = <<>>
    THEN LinesResult(s, Commit(s, committed))
    ELSE IF ~Head(fetched).ok
    THEN LinesResult(s, FetchFailed(s, committed))
    ELSE LinesKeys(LinesPayload(s, Head(fetched).events, committed), Tail(fetched), committed)

\* import_all_lines() as a request: the committed table and the counters.
import_all_lines_keys(gs, fetched) == LinesKeys(OpenSession(gs), fetched, gs)

\* refresh_spreads_unlocked() as a request: the code's second copy of the loop.
refresh_spreads_unlocked_keys(gs, fetched) == LinesKeys(OpenSession(gs), fetched, gs)

\* A score event whose scores list holds an entry that is no object: the
\* loop over the scores raises on it.
JunkScores == <<[junk |-> TRUE]>>

BatchScoreLines ==
    {<<[name |-> "A", score |-> RawScore(24)], [name |-> "B", score |-> RawScore(21)]>>,
     JunkScores}

\* Score events of known games, of games the table may not hold, and without
\* an id.
BatchScoreEvents == {ScoreEvent(id, sc) : id \in BatchExtIds \cup {NONE}, sc \in BatchScoreLines}

ScoreFetches ==
    {<<k1, k2>> : k1 \in {Fetched(pl) : pl \in SeqsUpTo2(BatchScoreEvents)} \cup {FetchError},
                  k2 \in {Fetched(<<>>), FetchError}}

\* s.get("name") on every entry of the scores list succeeds.
ScoresReadable(score_ev) ==
    \A k \in DOMAIN score_ev.scores : "name" \in DOMAIN score_ev.scores[k]

OpenScoreSession(gs) ==
    [gs |-> gs, ok |-> TRUE, updated_scores |-> 0, unchanged |-> 0, missing_game |-> 0]

\* ScoresEvent creating the game an event names when the table has none.
ScoresEventCreatesMissing(s, ev) ==
    IF ev.id = NONE
    THEN s
    ELSE LET found == GamesByEvent(s.gs, ev.id)
         IN IF found = {}
            THEN [s EXCEPT !.gs = Append(s.gs, NewGame(Len(s.gs) + 1, ev.id)),
                           !.missing_game = @ + 1]
            ELSE IF ~ScoresReadable(ev)
            THEN s
            ELSE LET i == CHOOSE k \in found : TRUE
                 IN IF update_game_scores_from_score_event(s.gs[i], ev)
                    THEN [s EXCEPT !.gs[i] = ScoredGame(s.gs[i], ev), !.updated_scores = @ + 1]
                    ELSE [s EXCEPT !.unchanged = @ + 1]

\* One iteration of the loop of import_all_scores.
ScoresEvent(s, ev) ==
    IF ev.id = NONE
    THEN s                                            \* no id: skipped
    ELSE LET found == GamesByEvent(s.gs, ev.id)
         IN IF found = {}
            THEN [s EXCEPT !.missing_game = @ + 1]
            ELSE IF ~ScoresReadable(ev)
            THEN s                                    \* s.get raises, logged
            ELSE LET i == CHOOSE k \in found : TRUE
                 IN IF update_game_scores_from_score_event(s.gs[i], ev)
                    THEN [s EXCEPT !.gs[i] = ScoredGame(s.gs[i], ev), !.updated_scores = @ + 1]
                    ELSE [s EXCEPT !.unchanged = @ + 1]

RECURSIVE ScoresPayload(_, _)
ScoresPayload(s, payload) ==
    IF payload = <<>>
    THEN s
    ELSE ScoresPayload(ScoresEvent(s, Head(payload)), Tail(payload))

ScoresResult(s, c) ==
    [games |-> c.games, raised |-> c.raised, updated_scores |-> s.updated_scores,
     unchanged |-> s.unchanged, missing_game |-> s.missing_game]

RECURSIVE ScoresKeys(_, _, _)
ScoresKeys(s, fetched, committed) ==
    IF fetched = <<>>
    THEN ScoresResult(s, Commit(s, committed))
    ELSE IF ~Head(fetched).ok
    THEN ScoresResult(s, FetchFailed(s, committed))
    ELSE ScoresKeys(ScoresPayload(s, Head(fetched).events), Tail(fetched), committed)

\* import_all_scores() as a request.
import_all_scores_keys(gs, fetched) == ScoresKeys(OpenScoreSession(gs), fetched, gs)

\* The first sport key whose provider call raised (0: none did).
FailedKey(fetched) ==
    IF \E k \in DOMAIN fetched : ~fetched[k].ok
    THEN CHOOSE k \in DOMAIN fetched :
            /\ ~fetched[k].ok
            /\ \A j \in 1..(k - 1) : fetched[j].ok
    ELSE 0

\* The events the request got before any provider call raised.
RECURSIVE FetchedEvents(_)
FetchedEvents(fetched) ==
    IF fetched = <<>>
    THEN <<>>
    ELSE IF ~Head(fetched).ok
    THEN <<>>
    ELSE Head(fetched).events \o FetchedEvents(Tail(fetched))

\* admin_import_lines
BatchImportLines(fetched) ==
    /\ LET res == import_all_lines_keys(games, fetched)
       IN /\ games' = res.games
          /\ last' = Op("import_all_lines", FailedKey(fetched), NONE,
                        [raised |-> res.raised,
                         events |-> Len(FetchedEvents(fetched))])
    /\ UNCHANGED <<ats, now, nops, picks, txn>>

\* admin_refresh_spreads
BatchRefreshSpreads(fetched) ==
    /\ LET res == refresh_spreads_unlocked_keys(games, fetched)
       IN /\ games' = res.games
          /\ last' = Op("refresh_spreads_unlocked", FailedKey(fetched), NONE,
                        [raised |-> res.raised,
                         events |-> Len(FetchedEvents(fetched))])
    /\ UNCHANGED <<ats, now, nops, picks, txn>>

\* admin_import_scores
BatchImportScores(fetched) ==
    /\ LET res == import_all_scores_keys(games, fetched)
       IN /\ games' = res.games
          /\ last' = Op("import_all_scores", FailedKey(fetched), NONE,
                        [raised |-> res.raised,
                         events |-> Len(FetchedEvents(fetched)),
                         updated_scores |-> res.updated_scores,
                         missing_game |-> res.missing_game])
    /\ UNCHANGED <<ats, now, nops, picks, txn>>

\* admin_lock_weeks between two batches.
BatchLockWeeks ==
    /\ LET res == lock_weeks_through_current(games, now, TRUE)
       IN /\ games' = res.games
          /\ ats' = SnapshotAll(ats, res.games, LockedGames(res.games), "Admin/Lock")
          /\ last' = Op("lock_weeks_through_current", 0, NONE, res.locked)
    /\ UNCHANGED <<now, nops, picks, txn>>

BatchNext ==
    \/ \E fetched \in OddsFetches : BatchImportLines(fetched)
    \/ \E fetched \in OddsFetches : BatchRefreshSpreads(fetched)
    \/ \E fetched \in ScoreFetches : BatchImportScores(fetched)
    \/ BatchLockWeeks

BatchSpec == Init /\ [][BatchNext]_vars

\* ------------------------------------------------------------------------
\* app/services/ats.py called on one game directly: the game is drawn with
\* or without spreads and with none, one or both of its final scores.
\* ------------------------------------------------------------------------

AtsGames ==
    {[NewGame(1, "e1") EXCEPT !.week = 1, !.home_team = "A", !.away_team = "B",
                              !.kickoff_at = 68,
                              !.spread_home = sp, !.spread_away = IF sp = NULL THEN NULL ELSE 0 - sp,
                              !.final_score_home = sc[1], !.final_score_away = sc[2]] :
        sp \in Points \cup {NULL},
        sc \in {<<NULL, NULL>>, <<24, NULL>>, <<NULL, 21>>, <<24, 21>>, <<24, 20>>, <<21, 24>>}}

AtsInit ==
    /\ games \in {<<g>> : g \in AtsGames}
    /\ ats = {}
    /\ picks = {}
    /\ txn = NoTxn
    /\ now \in Instants
    /\ nops = 0
    /\ last = Op("init", 0, NONE, NULL)

SnapshotClosingLinesForGame(i, line_source) ==
    /\ ats' = snapshot_closing_lines_for_game(ats, games[i], line_source)
    /\ last' = Op("snapshot_closing_lines_for_game", i, NONE, Cardinality(ats'))
    /\ UNCHANGED <<games, now, nops, picks, txn>>

FinalizeAtsForGame(i) ==
    /\ ats' = finalize_ats_for_game(ats, games[i])
    /\ last' = Op("finalize_ats_for_game", i, NONE, Cardinality(ats'))
    /\ UNCHANGED <<games, now, nops, picks, txn>>

\* The provider reports the missing scores: the game becomes final, 24-21.
ScoresArrive(i) ==
    /\ games[i].final_score_home = NULL \/ games[i].final_score_away = NULL
    /\ games' = [games EXCEPT ![i] = ScoredGame(games[i], ScoreEvent("e1",
                    <<[name |-> "A", score |-> RawScore(24)],
                      [name |-> "B", score |-> RawScore(21)]>>))]
    /\ last' = Op("update_game_scores_from_score_event", i, NONE, 1)
    /\ UNCHANGED <<ats, now, nops, picks, txn>>

AtsNext ==
    \/ \E src \in {"Admin/Lock", "Admin/Button"} : SnapshotClosingLinesForGame(1, src)
    \/ FinalizeAtsForGame(1)
    \/ ScoresArrive(1)

AtsSpec == AtsInit /\ [][AtsNext]_vars

\* ------------------------------------------------------------------------
\* Pick submissions: app/weekly_lines/routes.py, app/routes.py.  One user,
\* six games of week 1 with fixed kickoffs: five at instant 200, one at 260.
\* ------------------------------------------------------------------------

\* The cap on picks per week the three routes hard-code.
MaxPicks == 5

PickGameIds == 1..6

PickGame(i) ==
    [NewGame(i, NONE) EXCEPT !.week = 1, !.home_team = "A", !.away_team = "B",
                             !.kickoff_at = IF i <= 5 THEN 200 ELSE 260]

PickGames == [i \in PickGameIds |-> PickGame(i)]

\* Clock readings: before every kickoff, at the first kickoff, after the last.
PickInstants == {100, 200, 300}

Pick(user_id, game_id, chosen_team) ==
    [user_id |-> user_id, game_id |-> game_id, chosen_team |-> chosen_team]

\* The submitted items in the order of the request, by ascending game id.
RECURSIVE ItemsOf(_, _)
ItemsOf(ids, team) ==
    IF ids = {}
    THEN <<>>
    ELSE LET i == CHOOSE k \in ids : \A j \in ids : k <= j
         IN <<[gid |-> i, team |-> team]>> \o ItemsOf(ids \ {i}, team)

\* What a client posts: any set of games with the home team chosen, or the
\* away team chosen for the first or the last game.
Submissions ==
    {ItemsOf(ids, "A") : ids \in SUBSET PickGameIds}
    \cup {ItemsOf({i}, "B") : i \in {1, 6}}

PickWeeks == {1, 2}

Take(seq, n) == SubSeq(seq, 1, IF n < Len(seq) THEN n ELSE Len(seq))

\* The picks of the user on games of the week that have kicked off.
LockedExisting(ps, gs, user_id, week, now_utc) ==
    {p \in ps : /\ p.user_id = user_id
                /\ gs[p.game_id].week = week
                /\ gs[p.game_id].kickoff_at # NULL
                /\ gs[p.game_id].kickoff_at <= now_utc}

\* The picks of the user the delete statement removes: those on games of the
\* week that have not kicked off.
OpenPicks(ps, gs, user_id, week, now_utc) ==
    {p \in ps : /\ p.user_id = user_id
                /\ gs[p.game_id].week = week
                /\ gs[p.game_id].kickoff_at # NULL
                /\ gs[p.game_id].kickoff_at > now_utc}

\* An item names a game of the week that has not kicked off and one of its
\* two teams.
Insertable(item, gs, week, now_utc) ==
    /\ item.gid \in DOMAIN gs
    /\ gs[item.gid].week = week
    /\ item.team \in {gs[item.gid].home_team, gs[item.gid].away_team}
    /\ gs[item.gid].kickoff_at # NULL
    /\ gs[item.gid].kickoff_at > now_utc

PicksOfItems(items, user_id) ==
    {Pick(user_id, items[k].gid, items[k].team) : k \in DOMAIN items}

\* The loop of submit_picks_api that builds "filtered": an item is appended
\* first and the length is compared with remaining_slots afterwards.
RECURSIVE FilteredApi(_, _, _, _, _, _)
FilteredApi(parsed, filtered, remaining_slots, gs, week, now_utc) ==
    IF parsed = <<>>
    THEN filtered
    ELSE IF ~Insertable(Head(parsed), gs, week, now_utc)
    THEN FilteredApi(Tail(parsed), filtered, remaining_slots, gs, week, now_utc)
    ELSE IF Len(filtered) + 1 >= remaining_slots
    THEN Append(filtered, Head(parsed))
    ELSE FilteredApi(Tail(parsed), Append(filtered, Head(parsed)), remaining_slots,
                     gs, week, now_utc)

\* submit_picks_api: the Pick table after the request and its HTTP status.
submit_picks_api(ps, gs, user_id, week, raw, now_utc) ==
    IF Len(raw) > MaxPicks
    THEN [picks |-> ps, status |-> 400]
    ELSE IF raw # <<>> /\ \E k \in DOMAIN raw :
                             raw[k].gid \notin DOMAIN gs \/ gs[raw[k].gid].week # week
    THEN [picks |-> ps, status |-> 400]
    ELSE LET locked_existing == Cardinality(LockedExisting(ps, gs, user_id, week, now_utc))
             remaining_slots == Max(0, MaxPicks - locked_existing)
             filtered == FilteredApi(raw, <<>>, remaining_slots, gs, week, now_utc)
         IN [picks |-> (ps \ OpenPicks(ps, gs, user_id, week, now_utc))
                         \cup PicksOfItems(filtered, user_id),
             status |-> 200]

\* The insert loop of the form routes: it stops once remaining_slots picks
\* were inserted.
RECURSIVE InsertedForm(_, _, _, _, _, _)
InsertedForm(selections, inserted, remaining_slots, gs, week, now_utc) ==
    IF selections = <<>> \/ Len(inserted) >= remaining_slots
    THEN inserted
    ELSE IF ~Insertable(Head(selections), gs, week, now_utc)
    THEN InsertedForm(Tail(selections), inserted, remaining_slots, gs, week, now_utc)
    ELSE InsertedForm(Tail(selections), Append(inserted, Head(selections)), remaining_slots,
                      gs, week, now_utc)

\* weekly_lines.submit_picks (the form fallback).
submit_picks(ps, gs, user_id, week, raw, now_utc) ==
    LET selections == Take(raw, MaxPicks)
        kept == ps \ OpenPicks(ps, gs, user_id, week, now_utc)
        locked_existing == Cardinality(LockedExisting(kept, gs, user_id, week, now_utc))
        remaining_slots == Max(0, MaxPicks - locked_existing)
        inserted == InsertedForm(selections, <<>>, remaining_slots, gs, week, now_utc)
    IN [picks |-> kept \cup PicksOfItems(inserted, user_id), status |-> 302]

\* main.submit_picks (app/routes.py): the selections are cut to
\* remaining_slots before the insert loop.
submit_picks_main(ps, gs, user_id, week, raw, now_utc) ==
    LET selections == Take(raw, MaxPicks)
        kept == ps \ OpenPicks(ps, gs, user_id, week, now_utc)
        locked_existing == Cardinality(LockedExisting(kept, gs, user_id, week, now_utc))
        remaining_slots == Max(0, MaxPicks - locked_existing)
        inserted == InsertedForm(Take(selections, remaining_slots), <<>>, remaining_slots,
                                 gs, week, now_utc)
    IN [picks |-> kept \cup PicksOfItems(inserted, user_id), status |-> 302]

PickInit ==
    /\ games = PickGames
    /\ ats = {}
    /\ picks = {}
    /\ txn = NoTxn
    /\ now = 100
    /\ nops = 0
    /\ last = Op("init", 0, NONE, NULL)

SubmitPicksApi(week, raw) ==
    /\ LET res == submit_picks_api(picks, games, 1, week, raw, now)
       IN /\ picks' = res.picks
          /\ last' = Op("submit_picks_api", week, NONE, res.status)
    /\ UNCHANGED <<games, ats, txn, now, nops>>

SubmitPicks(week, raw) ==
    /\ LET res == submit_picks(picks, games, 1, week, raw, now)
       IN /\ picks' = res.picks
          /\ last' = Op("submit_picks", week, NONE, res.status)
    /\ UNCHANGED <<games, ats, txn, now, nops>>

SubmitPicksMain(week, raw) ==
    /\ LET res == submit_picks_main(picks, games, 1, week, raw, now)
       IN /\ picks' = res.picks
          /\ last' = Op("submit_picks_main", week, NONE, res.status)
    /\ UNCHANGED <<games, ats, txn, now, nops>>

\* Time passes between two requests.
Tick ==
    /\ \E t \in PickInstants : t > now /\ now' = t
    /\ last' = Op("tick", 0, NONE, NULL)
    /\ UNCHANGED <<games, ats, picks, txn, nops>>

PickNext ==
    \/ \E week \in PickWeeks, raw \in Submissions : SubmitPicksApi(week, raw)
    \/ \E week \in PickWeeks, raw \in Submissions : SubmitPicks(week, raw)
    \/ \E week \in PickWeeks, raw \in Submissions : SubmitPicksMain(week, raw)
    \/ Tick

PickSpec == PickInit /\ [][PickNext]_vars

\* ------------------------------------------------------------------------
\* The lock flow and a spread batch as transactions: a request reads rows
\* into its session, and its commit writes the columns it changed.  The lock
\* flow commits twice (lock_weeks_through_current, then the snapshots).
\* ------------------------------------------------------------------------

\* A spread batch in flight: the rows as it read them and as it will write
\* them.
NoBatch == [active |-> FALSE, op |-> NONE, read |-> <<>>, pending |-> <<>>]

\* No batch in flight, the lock flow not between its two commits.
IdleTxn == [batch |-> NoBatch, lock |-> "idle", locked |-> 0]

FlowEvents == {OddsEvent(id, "A", "B", 68, p) : id \in BatchExtIds, p \in Points}

FlowInit ==
    /\ games = <<>>
    /\ ats = {}
    /\ picks = {}
    /\ txn = IdleTxn
    /\ now \in Instants
    /\ nops = 0
    /\ last = Op("init", 0, NONE, NULL)

\* The UPDATE the session flushes for a row: the columns whose value the
\* request changed, written over the row as it is now.
ColumnsWritten(current, read, pending) ==
    [c \in DOMAIN current |-> IF pending[c] # read[c] THEN pending[c] ELSE current[c]]

\* The Game table after the commit of a batch that read `read` and holds
\* `pending`.
CommitBatch(gs, read, pending) ==
    [i \in DOMAIN pending |->
        IF i \in DOMAIN read /\ i \in DOMAIN gs
        THEN ColumnsWritten(gs[i], read[i], pending[i])
        ELSE pending[i]]

\* admin_import_lines / admin_refresh_spreads up to the commit.
SpreadBatchReads(op, ev) ==
    /\ ~txn.batch.active
    /\ (GamesByEvent(games, "e1") = {}) => ev.id = "e1"
    /\ LET res == IF op = "import_all_lines"
                  THEN import_all_lines(games, <<ev>>, <<0, 0, 0>>)
                  ELSE refresh_spreads_unlocked(games, <<ev>>, <<0, 0, 0>>)
       IN txn' = [txn EXCEPT !.batch = [active |-> TRUE, op |-> op,
                                        read |-> games, pending |-> res.games]]
    /\ last' = Op("fetch_odds", 0, NONE, NULL)
    /\ UNCHANGED <<games, ats, now, nops, picks>>

\* db.session.commit() of the batch.
SpreadBatchCommits ==
    /\ txn.batch.active
    /\ games' = CommitBatch(games, txn.batch.read, txn.batch.pending)
    /\ txn' = [txn EXCEPT !.batch = NoBatch]
    /\ last' = Op(txn.batch.op, 0, NONE, NULL)
    /\ UNCHANGED <<ats, now, nops, picks>>

\* admin_lock_weeks, first commit: lock_weeks_through_current.
LockWeeksCommits ==
    /\ txn.lock = "idle"
    /\ LET res == lock_weeks_through_current(games, now, TRUE)
       IN /\ games' = res.games
          /\ txn' = [txn EXCEPT !.lock = "locked", !.locked = res.locked]
          /\ last' = Op("lock_weeks_through_current", 0, NONE, res.locked)
    /\ UNCHANGED <<ats, now, nops, picks>>

\* The snapshot loop of admin_lock_weeks leaving out the locked games that
\* have no row yet.
admin_lock_weeks_snapshot_known(rows, gs) ==
    SnapshotAll(rows, gs, {i \in LockedGames(gs) : \E r \in rows : r.game_id = i}, "Admin/Lock")

\* The snapshot loop of admin_lock_weeks: every locked game of the table.
admin_lock_weeks_snapshot(rows, gs) ==
    SnapshotAll(rows, gs, LockedGames(gs), "Admin/Lock")

\* admin_lock_weeks, second commit: the snapshots.  The record keeps how many
\* locked games had no row before, and how many games this run locked.
SnapshotsCommit ==
    /\ txn.lock = "locked"
    /\ ats' = admin_lock_weeks_snapshot(ats, games)
    /\ txn' = [txn EXCEPT !.lock = "idle", !.locked = 0]
    /\ last' = Op("admin_lock_weeks",
                  Cardinality({i \in LockedGames(games) : \A r \in ats : r.game_id # i}),
                  NONE, txn.locked)
    /\ UNCHANGED <<games, now, nops, picks>>

\* The request ends between its two commits (the worker is stopped, or the
\* snapshot query fails): the lock stays committed, no snapshot is written.
LockFlowStops ==
    /\ txn.lock = "locked"
    /\ txn' = [txn EXCEPT !.lock = "idle", !.locked = 0]
    /\ last' = Op("admin_lock_weeks_stopped", 0, NONE, txn.locked)
    /\ UNCHANGED <<games, ats, now, nops, picks>>

FlowNext ==
    \/ \E op \in {"import_all_lines", "refresh_spreads_unlocked"}, ev \in FlowEvents :
          SpreadBatchReads(op, ev)
    \/ SpreadBatchCommits
    \/ LockWeeksCommits
    \/ SnapshotsCommit
    \/ LockFlowStops

FlowSpec == FlowInit /\ [][FlowNext]_vars

\* ------------------------------------------------------------------------
\* Two requests to /api/picks of one user as concurrent transactions: each
\* reads the committed table, deletes, and inserts at its commit.
\* ------------------------------------------------------------------------

Requests == {1, 2}

\* A request that has not started: nothing filtered, no row deleted.
IdleRequest == [pc |-> "idle", filtered |-> <<>>, deleted |-> {}]

\* What the two clients post for week 1.
RaceSubmissions ==
    {ItemsOf(1..5, "A"), ItemsOf(2..6, "A"), ItemsOf({6}, "A"), ItemsOf({1}, "B"), <<>>}

RaceInit ==
    /\ games = PickGames
    /\ ats = {}
    /\ picks = {}
    /\ txn = [r \in Requests |-> IdleRequest]
    /\ now = 100
    /\ nops = 0
    /\ last = Op("init", 0, NONE, NULL)

\* submit_picks_api up to the delete: the count of kicked-off picks and the
\* filtered list, from the committed rows.
ApiReads(r, raw) ==
    /\ txn[r].pc = "idle"
    /\ Len(raw) <= MaxPicks
    /\ LET locked_existing == Cardinality(LockedExisting(picks, games, 1, 1, now))
           remaining_slots == Max(0, MaxPicks - locked_existing)
           filtered == FilteredApi(raw, <<>>, remaining_slots, games, 1, now)
       IN txn' = [txn EXCEPT ![r] = [pc |-> "read", filtered |-> filtered, deleted |-> {}]]
    /\ last' = Op("submit_picks_api_reads", r, NONE, NULL)
    /\ UNCHANGED <<games, ats, picks, now, nops>>

\* The DELETE statement: the committed open picks of the user; it waits while
\* the other request holds one of these rows deleted and uncommitted.
ApiDeletes(r) ==
    /\ txn[r].pc = "read"
    /\ LET rows == OpenPicks(picks, games, 1, 1, now)
       IN /\ \A o \in Requests \ {r} : rows \cap txn[o].deleted = {}
          /\ txn' = [txn EXCEPT ![r].pc = "deleted", ![r].deleted = rows]
    /\ last' = Op("submit_picks_api_deletes", r, NONE, NULL)
    /\ UNCHANGED <<games, ats, picks, now, nops>>

\* unique_user_game_pick: no two picks of a user on one game.
UniquePickViolated(table, new) ==
    \E p \in table, q \in new : p.user_id = q.user_id /\ p.game_id = q.game_id

\* db.session.commit(): the INSERTs are flushed and the transaction commits,
\* or the unique constraint raises and the transaction is rolled back.
ApiCommits(r) ==
    /\ txn[r].pc = "deleted"
    /\ LET table == picks \ txn[r].deleted
           new == PicksOfItems(txn[r].filtered, 1)
       IN IF UniquePickViolated(table, new)
          THEN /\ picks' = picks
               /\ last' = Op("submit_picks_api", r, NONE, 500)
          ELSE /\ picks' = table \cup new
               /\ last' = Op("submit_picks_api", r, NONE, 200)
    /\ txn' = [txn EXCEPT ![r] = IdleRequest]
    /\ UNCHANGED <<games, ats, now, nops>>

RaceNext ==
    \E r \in Requests :
        \/ \E raw \in RaceSubmissions : ApiReads(r, raw)
        \/ ApiDeletes(r)
        \/ ApiCommits(r)

RaceSpec == RaceInit /\ [][RaceNext]_vars

\* ------------------------------------------------------------------------
\* Claims
\* ------------------------------------------------------------------------

ForceWeeks == Weeks \cup {NULL}

\* The rows of the home and of the away side of game i.
HomeRows(i) == RowsOf(ats, i, games[i].home_team)

AwayRows(i) == RowsOf(ats, i, games[i].away_team)

\* C1: once a Game's spread_is_locked is true, no step of any ingestion
\* operation changes its spread_home or spread_away (the row stays, with the
\* same spreads), and a step that upserts an event onto a locked game still
\* stores the event's home_team, away_team and kickoff.
C1_LockedSpreadFrozen ==
    [][/\ \A i \in DOMAIN games :
            is_locked(games[i]) =>
                /\ i \in DOMAIN games'
                /\ games'[i].spread_home = games[i].spread_home
                /\ games'[i].spread_away = games[i].spread_away
       /\ \A payload \in OddsPayloads, fw \in RouteForceWeeks :
            (/\ last'.op = "refresh_lines_for_key"
             /\ last'.team = payload[1].home_team
             /\ \E i \in GamesByEvent(games, payload[1].id) : is_locked(games[i])
             /\ AdminRefreshLines(payload, fw))
            => \A i \in GamesByEvent(games', payload[1].id) :
                  /\ games'[i].home_team = payload[1].home_team
                  /\ games'[i].away_team = payload[1].away_team
                  /\ games'[i].kickoff_at = payload[1].commence_time]_vars

\* A locked game was just upserted from an event that quotes another home
\* spread and exchanges the sides that were snapshotted at the lock.
C1_Witness ==
    /\ last.op = "refresh_lines_for_key"
    /\ last.arg \in DOMAIN games
    /\ is_locked(games[last.arg])
    /\ last.ret # NULL
    /\ games[last.arg].spread_home # NULL
    /\ last.ret # games[last.arg].spread_home
    /\ games[last.arg].home_team = last.team
    /\ \E r \in AwayRows(last.arg) : r.is_home /\ r.line_source # NONE

C3_ClosingSpreadFrozen ==
    [][\A r \in ats :
          (/\ r.line_source # NONE
           /\ r.game_id \in DOMAIN games
           /\ is_locked(games[r.game_id]))
          => \A r2 \in RowsOf(ats', r.game_id, r.team) :
                r2.closing_spread = r.closing_spread]_vars

\* The games the last operation graded, and those it snapshotted.
GradedNow ==
    IF last.op = "finalize_ats_for_game"
    THEN {i \in FinalGames(games) : games[i].week = last.arg}
    ELSE IF last.op = "ats_backfill" THEN FinalGames(games)
    ELSE {}

SnapshottedNow ==
    IF last.op \in {"lock_weeks_through_current", "ats_backfill"}
    THEN LockedGames(games)
    ELSE IF last.op \in {"lock_current_week", "admin_prep_week"}
    THEN {i \in LockedGames(games) : games[i].week = last.arg}
    ELSE {}

\* C4: when finalize_ats_for_game grades a game that had no TeamGameATS row,
\* each row it creates records as closing_spread the game's current spread
\* of that side, and 0 only when that spread is absent.
C4_FallbackToCurrentSpread ==
    [][\A i \in DOMAIN games' :
          (/\ last'.op = "finalize_ats_for_game"
           /\ \A r \in ats : r.game_id # i
           /\ \E r \in ats' : r.game_id = i)
          => \A r \in ats' :
                r.game_id = i =>
                    r.closing_spread = (IF r.is_home
                                        THEN OrZero(games'[i].spread_home)
                                        ELSE OrZero(games'[i].spread_away))]_vars

\* ATS classification by the sign of a margin.
SignResult(margin) ==
    IF margin > 0 THEN "COVER" ELSE IF margin = 0 THEN "PUSH" ELSE "NO_COVER"

\* What grading must have stored in row r for the scores pf : pa.
GradedAs(r, pf, pa) ==
    /\ r.points_for = pf
    /\ r.points_against = pa
    /\ r.cover_margin = (2 * pf) + r.closing_spread - (2 * pa)
    /\ r.ats_result = SignResult((2 * pf) + r.closing_spread - (2 * pa))

\* C5: after finalize_ats_for_game, both sides of every game it graded have a
\* row with the final scores oriented to the side, cover_margin = points_for
\* + closing_spread - points_against, and ats_result COVER / PUSH / NO_COVER
\* for a margin above / at / below zero.
C5_MarginAndResult ==
    \A i \in GradedNow :
        /\ HomeRows(i) # {}
        /\ AwayRows(i) # {}
        /\ \A r \in HomeRows(i) :
              GradedAs(r, games[i].final_score_home, games[i].final_score_away)
        /\ \A r \in AwayRows(i) :
              GradedAs(r, games[i].final_score_away, games[i].final_score_home)

\* A game graded against a closing spread of -3.0 was just pushed by the home
\* side, covered by neither.
C5_Witness ==
    \E i \in GradedNow :
        /\ \E r \in HomeRows(i) : r.closing_spread = 0 - 6 /\ r.ats_result = "PUSH"
        /\ \E r \in AwayRows(i) : r.ats_result = "PUSH" /\ r.cover_margin = 0

\* The rows of game i are graded from its current final scores against
\* closing spreads that equal its current spreads (0 for an absent spread).
RowsMatchGame(i) ==
    /\ i \in FinalGames(games)
    /\ HomeRows(i) # {}
    /\ AwayRows(i) # {}
    /\ \A r \in HomeRows(i) :
          /\ r.ats_result # NONE
          /\ r.points_for = games[i].final_score_home
          /\ r.points_against = games[i].final_score_away
          /\ r.closing_spread = OrZero(games[i].spread_home)
    /\ \A r \in AwayRows(i) :
          /\ r.ats_result # NONE
          /\ r.points_for = games[i].final_score_away
          /\ r.points_against = games[i].final_score_home
          /\ r.closing_spread = OrZero(games[i].spread_away)

\* C6: for a game with both final scores whose rows are graded from those
\* scores against closing spreads equal to the game's spreads, the live
\* grading returns "home" exactly when the home row is COVER, "away" exactly
\* when the away row is COVER, and "push" exactly when both rows are PUSH.
C6_LiveAgreesWithAts ==
    \A i \in DOMAIN games :
        RowsMatchGame(i) =>
            LET res == game_result_against_spread(games[i])
            IN /\ \A r \in HomeRows(i) : (res = "home") <=> (r.ats_result = "COVER")
               /\ \A r \in AwayRows(i) : (res = "away") <=> (r.ats_result = "COVER")
               /\ \A r \in HomeRows(i) \cup AwayRows(i) :
                     (res = "push") <=> (r.ats_result = "PUSH")

\* The points of a stored classification, in half points.
PointsOfResult(ats_result) ==
    IF ats_result = "COVER" THEN 2 ELSE IF ats_result = "PUSH" THEN 1 ELSE 0

\* C7: whenever the picked team has a graded TeamGameATS row for the game,
\* points_for_pick returns the points of that row's classification.
C7_PrefersStoredResult ==
    last.op = "points_for_pick" =>
        \A r \in RowsOf(ats, last.arg, last.team) :
            r.ats_result # NONE => last.ret = PointsOfResult(r.ats_result)

\* C8: for a game with both final scores, a pick whose chosen_team is neither
\* the home nor the away team gets 0.0 from points_for_pick.
C8_MismatchIsLoss ==
    (/\ last.op = "points_for_pick"
     /\ last.arg \in FinalGames(games)
     /\ last.team # games[last.arg].home_team
     /\ last.team # games[last.arg].away_team)
    => last.ret = 0

\* The home side's margin against the spread, in half points.
HomeMargin(game) ==
    (2 * game.final_score_home) + OrZero(game.spread_home) - (2 * game.final_score_away)

C10_SnapshotSymmetry ==
    \A i \in SnapshottedNow :
        (\/ games[i].spread_home = NULL /\ games[i].spread_away = NULL
         \/ /\ games[i].spread_home # NULL
            /\ games[i].spread_away # NULL
            /\ games[i].spread_away = 0 - games[i].spread_home)
        => /\ HomeRows(i) # {}
           /\ AwayRows(i) # {}
           /\ \A h \in HomeRows(i), a \in AwayRows(i) :
                 h.closing_spread = 0 - a.closing_spread

\* A game with the home spread -3.0 was just snapshotted.
C10_Witness ==
    \E i \in SnapshottedNow :
        /\ games[i].spread_home = 0 - 6
        /\ \E h \in HomeRows(i) : h.closing_spread = 0 - 6 /\ h.line_source # NONE
        /\ \E a \in AwayRows(i) : a.closing_spread = 6

\* C11: every Game has spread_home and spread_away either both null or
\* additive inverses of each other; no operation leaves one side set while the
\* other is null or mismatched.
C11_SpreadPair ==
    \A i \in DOMAIN games :
        \/ games[i].spread_home = NULL /\ games[i].spread_away = NULL
        \/ /\ games[i].spread_home # NULL
           /\ games[i].spread_away # NULL
           /\ games[i].spread_home + games[i].spread_away = 0

\* A second or later ingestion step just stored the quoted -3.0 / +3.0 on an
\* unlocked game.
C11_Witness ==
    /\ last.op = "refresh_lines_for_key"
    /\ nops >= 2
    /\ last.ret = 0 - 6
    /\ games[last.arg].spread_home = 0 - 6
    /\ games[last.arg].spread_away = 6
    /\ ~is_locked(games[last.arg])

\* The TeamGameATS rows of game i.
RowsOfGame(i) == {r \in ats : r.game_id = i}

\* C12: every game that has been snapshotted or graded has exactly two
\* TeamGameATS rows, one for its home_team with is_home true and one for its
\* away_team with is_home false, and no two rows share the same (game, team).
C12_TwoRowsPerGame ==
    /\ \A i \in DOMAIN games :
          RowsOfGame(i) # {} =>
              /\ Cardinality(RowsOfGame(i)) = 2
              /\ Cardinality(HomeRows(i)) = 1
              /\ Cardinality(AwayRows(i)) = 1
              /\ \A r \in HomeRows(i) : r.is_home
              /\ \A r \in AwayRows(i) : ~r.is_home
    /\ \A r1, r2 \in ats :
          (r1.game_id = r2.game_id /\ r1.team = r2.team) => r1 = r2

\* C13: locking is one-way: a game whose spread_is_locked is true stays in
\* the table with spread_is_locked true after every step of ingestion, score
\* update, lock, snapshot and grading.
C13_LockOneWay ==
    [][\A i \in DOMAIN games :
          is_locked(games[i]) => (i \in DOMAIN games' /\ is_locked(games'[i]))]_vars

\* A lock run that found nothing new to lock left a locked game locked.
C13_Witness ==
    /\ last.op = "lock_weeks_through_current"
    /\ last.ret = 0
    /\ \E i \in DOMAIN games : is_locked(games[i]) /\ games[i].spread_locked_at = now

\* The week the clock is in: instant 6 is 2025-09-02T00:00 in Denver, the
\* start of week 1, and the clock of the model stays before the end of
\* daylight time.
WeekOfClock == ((now - 6) \div 168) + 1

\* C14: lock_weeks_through_current locks exactly the games that were unlocked
\* and whose week lies in [min_week, current week] (min_week 0 with
\* include_preseason, else 1), stamps their spread_locked_at and returns their
\* number as 'locked'; every other game (a later week, or locked already) is
\* left as it was, spread_locked_at included, and is not counted.
C14_LockWeeksEffect ==
    \A include_preseason \in BOOLEAN :
        LET res == lock_weeks_through_current(games, now, include_preseason)
            min_week == IF include_preseason THEN 0 ELSE 1
            hit == {i \in DOMAIN games : /\ ~is_locked(games[i])
                                         /\ min_week <= games[i].week
                                         /\ games[i].week <= WeekOfClock}
        IN /\ DOMAIN res.games = DOMAIN games
           /\ res.locked = Cardinality(hit)
           /\ \A i \in hit :
                 res.games[i] = [games[i] EXCEPT !.spread_is_locked = TRUE,
                                                 !.spread_locked_at = now]
           /\ \A i \in DOMAIN games \ hit : res.games[i] = games[i]
           /\ last.op = "lock_weeks_through_current" =>
                 \A i \in DOMAIN games :
                     (0 <= games[i].week /\ games[i].week <= WeekOfClock)
                         => is_locked(games[i])

\* The lock handler just locked and stamped one game of the current week.
C14_Witness ==
    /\ last.op = "lock_weeks_through_current"
    /\ last.ret = 1
    /\ \E i \in DOMAIN games :
          /\ games[i].week = WeekOfClock
          /\ is_locked(games[i])
          /\ games[i].spread_locked_at = now

\* C15: once spread_is_locked is true, no step of an upsert or of a batch
\* import or refresh changes Game.week.
C15_LockedWeekFrozen ==
    [][\A i \in DOMAIN games :
          is_locked(games[i]) =>
              (i \in DOMAIN games' /\ games'[i].week = games[i].week)]_vars

\* C16: week_for_kickoff returns 0, the preseason value, for every kickoff
\* strictly before the Week 1 anchor instant.
C16_BeforeAnchorIsPreseason ==
    (last.op = "week_for_kickoff" /\ last.arg < 6) => last.ret = 0

\* C17 as stated: for a kickoff (or clock reading) at or after the anchor the
\* week is floor(days since the anchor instant / 7) + 1, the days being time
\* elapsed since the anchor instant.
C17_WeekByElapsedDays ==
    (last.op \in {"week_for_kickoff", "current_week_number"} /\ last.arg >= 6)
        => last.ret = ((last.arg - 6) \div 168) + 1

\* C17 amended: for a kickoff (or clock reading) at or after the anchor the
\* week is floor(d / 7) + 1 with d the whole days of Denver local time since
\* the anchor's local midnight, and current_week_number gives the same week
\* for now = kickoff.
C17_WeekByLocalDays ==
    (last.op \in {"week_for_kickoff", "current_week_number"} /\ last.arg >= 6)
        => /\ last.ret = ((last.arg + DenverOffset(last.arg)) \div 168) + 1
           /\ last.ret = current_week_number(last.arg)
           /\ last.ret = week_for_kickoff(last.arg)

\* The kickoff 63 days of 24 hours after the anchor instant, 23:00 on Monday
\* in Denver once daylight time has ended, was put in week 9.
C17_Witness ==
    /\ last.op = "week_for_kickoff"
    /\ last.arg = 6 + (63 * 24)
    /\ last.ret = 9

\* The table with the grading fields of every row blank, as before any
\* grading.
Ungraded(rows) ==
    {[r EXCEPT !.points_for = NULL, !.points_against = NULL,
               !.ats_result = NONE, !.cover_margin = NULL] : r \in rows}

\* The rows of the two sides of a game in a table.
SideRows(rows, game) ==
    RowsOf(rows, game.id, game.home_team) \cup RowsOf(rows, game.id, game.away_team)

\* C18: finalize_ats_for_game run again with the same final scores and closing
\* spreads changes no TeamGameATS field, and run on rows graded from other
\* scores it leaves both rows as a first grading with the game's present
\* scores leaves them.
C18_FinalizeRerun ==
    \A i \in FinalGames(games) :
        LET once == finalize_ats_for_game(ats, games[i])
            first == finalize_ats_for_game(Ungraded(ats), games[i])
        IN /\ finalize_ats_for_game(once, games[i]) = once
           /\ SideRows(once, games[i]) = SideRows(first, games[i])
           /\ \A r \in SideRows(once, games[i]) :
                 /\ r.points_for # NULL
                 /\ r.points_for + r.points_against
                       = games[i].final_score_home + games[i].final_score_away
                 /\ r.cover_margin = (2 * r.points_for) + r.closing_spread
                                       - (2 * r.points_against)

\* A graded game whose score has been corrected since: the home row still
\* holds the old score and an old result that the new score does not give.
C18_Witness ==
    \E i \in FinalGames(games) :
        \E r \in HomeRows(i) :
            /\ r.ats_result = "PUSH"
            /\ r.points_against # games[i].final_score_away
            /\ \E r2 \in RowsOf(finalize_ats_for_game(ats, games[i]), i, games[i].home_team) :
                  r2.ats_result = "COVER" /\ r2.closing_spread = r.closing_spread

\* C19: in every committed state each TeamGameATS row has points_for,
\* points_against, ats_result and cover_margin either all null or all set.
C19_GradingFieldsTogether ==
    \A r \in ats :
        \/ /\ r.points_for = NULL
           /\ r.points_against = NULL
           /\ r.ats_result = NONE
           /\ r.cover_margin = NULL
        \/ /\ r.points_for # NULL
           /\ r.points_against # NULL
           /\ r.ats_result # NONE
           /\ r.cover_margin # NULL

\* A grading run just graded a game: its home row carries all four fields,
\* and the row had been snapshotted before.
C19_Witness ==
    /\ last.op = "finalize_ats_for_game"
    /\ last.ret = 1
    /\ \E i \in FinalGames(games) :
          \E r \in HomeRows(i) :
              /\ r.line_source # NONE
              /\ r.points_for = games[i].final_score_home
              /\ r.ats_result = "NO_COVER"
              /\ r.cover_margin < 0

\* A side's parseable score in an event, as a set (empty when the event does
\* not name the side or its score does not parse).
ParsedScores(score_ev, nm) ==
    {score_ev.scores[k].score.val :
        k \in {j \in DOMAIN score_ev.scores :
                  score_ev.scores[j].name = nm /\ score_ev.scores[j].score.ok}}

\* C20: update_game_scores_from_score_event changes final_score_home /
\* final_score_away only for a side the event names with a parseable integer
\* score (to that score), never sets a stored score back to null, changes no
\* other field, and returns True exactly when a stored score changed.
C20_ScoreUpdateFrame ==
    \A i \in DOMAIN games, ev \in ScoreEvents :
        LET g == games[i]
            g2 == ScoredGame(g, ev)
        IN /\ g2.final_score_home # g.final_score_home
                => g2.final_score_home \in ParsedScores(ev, g.home_team)
           /\ g2.final_score_away # g.final_score_away
                => g2.final_score_away \in ParsedScores(ev, g.away_team)
           /\ ParsedScores(ev, g.home_team) = {} => g2.final_score_home = g.final_score_home
           /\ ParsedScores(ev, g.away_team) = {} => g2.final_score_away = g.final_score_away
           /\ g.final_score_home # NULL => g2.final_score_home # NULL
           /\ g.final_score_away # NULL => g2.final_score_away # NULL
           /\ g2 = [g EXCEPT !.final_score_home = g2.final_score_home,
                             !.final_score_away = g2.final_score_away]
           /\ update_game_scores_from_score_event(g, ev)
                <=> (\/ g2.final_score_home # g.final_score_home
                     \/ g2.final_score_away # g.final_score_away)

\* A score import just changed nothing on a game that has both scores: the
\* event's unparseable home score kept the stored one.
C20_Witness ==
    /\ last.op = "import_all_scores"
    /\ last.ret = 0
    /\ \E i \in FinalGames(games), ev \in ScoreEvents :
          /\ ParsedScores(ev, games[i].home_team) = {}
          /\ ParsedScores(ev, games[i].away_team) # {}
          /\ ~update_game_scores_from_score_event(games[i], ev)

\* An odds event that names its kickoff and both teams.
WellFormed(ev) ==
    /\ ev.commence_time # NULL
    /\ ev.home_team # NONE
    /\ ev.away_team # NONE

\* C21: in import_all_lines one malformed event never keeps the other events
\* of the batch from being upserted and committed; an event with an
\* unparseable spread point is still upserted, with a null spread when the
\* game is new and the previous spread when it exists; and when no event of
\* the batch raises, created + updated + skipped_locked is the number of
\* events and created is the number of new Game rows.
C21_MalformedEventIsolated ==
    \A fetched \in OddsFetches :
        FailedKey(fetched) = 0 =>
            LET res == import_all_lines_keys(games, fetched)
                evs == FetchedEvents(fetched)
            IN /\ \A k \in DOMAIN evs :
                    WellFormed(evs[k]) => GamesByEvent(res.games, evs[k].id) # {}
               /\ \A k \in DOMAIN evs :
                    (/\ evs[k] = OddsEventBad(evs[k].id, "A", "B", 68)
                     /\ \A j \in DOMAIN evs : j # k => evs[j].id # evs[k].id)
                    => LET before == GamesByEvent(games, evs[k].id)
                           after == GamesByEvent(res.games, evs[k].id)
                       IN /\ after # {}
                          /\ \A i \in after :
                               res.games[i].spread_home =
                                   (IF before = {} THEN NULL ELSE games[i].spread_home)
               /\ (\A k \in DOMAIN evs : evs[k].commence_time # NULL)
                    => /\ ~res.raised
                       /\ res.created + res.updated + res.skipped_locked = Len(evs)
                       /\ res.created = Len(res.games) - Len(games)

\* C22: in import_all_scores a score event whose id matches no Game creates
\* no Game, changes no stored state, is counted in missing_game and does not
\* stop the batch; updated_scores + unchanged + missing_game is the number of
\* events that carry an id and did not raise.
C22_MissingGameCounted ==
    \A fetched \in ScoreFetches :
        FailedKey(fetched) = 0 =>
            LET res == import_all_scores_keys(games, fetched)
                evs == FetchedEvents(fetched)
                with_id == {k \in DOMAIN evs : evs[k].id # NONE}
                unmatched == {k \in with_id : \A i \in DOMAIN games :
                                                 games[i].odds_event_id # evs[k].id}
                raising == {k \in with_id \ unmatched :
                              \E j \in DOMAIN evs[k].scores : evs[k].scores[j] = [junk |-> TRUE]}
                applied == with_id \ (unmatched \cup raising)
            IN /\ ~res.raised
               /\ Len(res.games) = Len(games)
               /\ \A i \in DOMAIN games :
                    (\A k \in applied : evs[k].id # games[i].odds_event_id)
                        => res.games[i] = games[i]
               /\ res.missing_game = Cardinality(unmatched)
               /\ res.updated_scores + res.unchanged + res.missing_game
                    = Cardinality(with_id \ raising)
               /\ \A k \in applied : \A i \in DOMAIN games :
                    games[i].odds_event_id = evs[k].id
                        => /\ res.games[i].final_score_home = 24
                           /\ res.games[i].final_score_away = 21

\* A score batch just counted an event of an unknown game and stored the
\* scores of another event of the same batch.
C22_Witness ==
    /\ last.op = "import_all_scores"
    /\ last.arg = 0
    /\ ~last.ret.raised
    /\ last.ret.events = 2
    /\ last.ret.missing_game = 1
    /\ last.ret.updated_scores = 1
    /\ Len(games) = 1
    /\ games[1].final_score_home = 24

BatchOps == {"import_all_lines", "refresh_spreads_unlocked", "import_all_scores"}

\* C23: when a provider call fails during import_all_lines, import_all_scores
\* or refresh_spreads_unlocked, on the first sport key or on the second after
\* the first key's events were processed, the error reaches the caller and
\* the committed Game and TeamGameATS tables are what they were before.
C23_FetchFailureKeepsState ==
    [][(last'.op \in BatchOps /\ last'.arg # 0)
          => /\ last'.ret.raised
             /\ games' = games
             /\ ats' = ats]_vars

\* The second provider call of import_all_lines just failed after the two
\* events of the first were processed, and the table holds one game as before.
C23_Witness ==
    /\ last.op = "import_all_lines"
    /\ last.arg = 2
    /\ last.ret.events = 2
    /\ last.ret.raised
    /\ Len(games) = 1
    /\ games[1].spread_home = NULL

\* C24: finalize_ats_for_game on a game with final_score_home or
\* final_score_away missing creates no TeamGameATS row and changes no field
\* of an existing row.
C24_FinalizeWithoutScores ==
    [][(/\ last'.op = "finalize_ats_for_game"
        /\ \/ games[last'.arg].final_score_home = NULL
           \/ games[last'.arg].final_score_away = NULL)
          => ats' = ats]_vars

\* finalize_ats_for_game just ran on a game with one score missing whose two
\* rows had been snapshotted; they are still ungraded.
C24_Witness ==
    /\ last.op = "finalize_ats_for_game"
    /\ games[1].final_score_home = 24
    /\ games[1].final_score_away = NULL
    /\ Cardinality(ats) = 2
    /\ \A r \in ats : r.ats_result = NONE /\ r.line_source = "Admin/Lock"

\* C25: for a game just graded against closing spreads that are negations of
\* each other, cover_margin(home) = -cover_margin(away), home is PUSH exactly
\* when away is PUSH and home is COVER exactly when away is NO_COVER; 24-21
\* with home -3 gives PUSH for both, 24-20 gives home COVER and away NO_COVER.
C25_RowsComplementary ==
    \A i \in GradedNow :
        \A h \in HomeRows(i), a \in AwayRows(i) :
            h.closing_spread = 0 - a.closing_spread
                => /\ h.cover_margin = 0 - a.cover_margin
                   /\ (h.ats_result = "PUSH") <=> (a.ats_result = "PUSH")
                   /\ (h.ats_result = "COVER") <=> (a.ats_result = "NO_COVER")
                   /\ (h.ats_result = "NO_COVER") <=> (a.ats_result = "COVER")
                   /\ (/\ h.closing_spread = 0 - 6
                       /\ games[i].final_score_home = 24
                       /\ games[i].final_score_away = 21)
                        => h.ats_result = "PUSH" /\ a.ats_result = "PUSH"
                   /\ (/\ h.closing_spread = 0 - 6
                       /\ games[i].final_score_home = 24
                       /\ games[i].final_score_away = 20)
                        => h.ats_result = "COVER" /\ a.ats_result = "NO_COVER"

\* A 24-20 game was just graded against a home closing spread of -3.0: the
\* home side covers by 1, the away side fails to by 1.
C25_Witness ==
    \E i \in GradedNow :
        /\ games[i].final_score_home = 24
        /\ games[i].final_score_away = 20
        /\ \E h \in HomeRows(i), a \in AwayRows(i) :
              /\ h.closing_spread = 0 - 6
              /\ a.closing_spread = 6
              /\ h.cover_margin = 2
              /\ a.cover_margin = 0 - 2

\* C27: in every reachable state each TeamGameATS row with a result has
\* cover_margin = points_for + closing_spread - points_against and a result
\* that matches the sign of that margin.
C27_GradedRowsConsistent ==
    \A r \in ats :
        r.ats_result # NONE
            => /\ r.cover_margin = (2 * r.points_for) + r.closing_spread - (2 * r.points_against)
               /\ r.ats_result = SignResult(r.cover_margin)

\* The picks of the user on the games of one week.
PicksOfWeek(ps, gs, user_id, week) ==
    {p \in ps : p.user_id = user_id /\ gs[p.game_id].week = week}

\* C26: after any sequence of pick submissions through submit_picks_api or
\* the form submit_picks, the clock advancing between requests, the user has
\* at most 5 picks among the games of any one week, picks on games that have
\* kicked off included; and a pick on a game whose kickoff has passed is
\* never deleted or changed by a submission.
C26_PickCapAndFreeze ==
    [][/\ \A week \in PickWeeks : Cardinality(PicksOfWeek(picks', games', 1, week)) <= 5
       /\ \A p \in picks : games[p.game_id].kickoff_at <= now => p \in picks']_vars

\* C28: when the admin lock-weeks flow completes, every locked game has a
\* home and an away TeamGameATS row whose closing_spread is the game's
\* spread_home / spread_away (0 for a null spread), the games a run that
\* stopped between its two commits had locked included.
C28_LockFlowSnapshots ==
    last.op = "admin_lock_weeks"
        => \A i \in LockedGames(games) :
              /\ \E r \in RowsOfGame(i) :
                    /\ r.team = games[i].home_team
                    /\ r.is_home
                    /\ r.closing_spread = (IF games[i].spread_home = NULL
                                           THEN 0 ELSE games[i].spread_home)
              /\ \E r \in RowsOfGame(i) :
                    /\ r.team = games[i].away_team
                    /\ ~r.is_home
                    /\ r.closing_spread = (IF games[i].spread_away = NULL
                                           THEN 0 ELSE games[i].spread_away)

\* The flow just completed without locking any game itself, and gave rows to
\* a game an earlier, stopped run had locked at spread -3.0.
C28_Witness ==
    /\ last.op = "admin_lock_weeks"
    /\ last.arg = 1
    /\ last.ret = 0
    /\ \E i \in LockedGames(games) :
          /\ games[i].spread_home = 0 - 6
          /\ \E r \in RowsOfGame(i) : r.is_home /\ r.closing_spread = 0 - 6

\* C29: a spread batch and the lock flow running as concurrent transactions:
\* once both have finished, every locked game's persisted spread_home is the
\* closing_spread of its home snapshot row.
C29_NoSpreadWriteAfterLock ==
    (txn = IdleTxn /\ last.op # "admin_lock_weeks_stopped")
        => \A i \in LockedGames(games) :
              \A r \in RowsOfGame(i) :
                 r.is_home => r.closing_spread = (IF games[i].spread_home = NULL
                                                  THEN 0 ELSE games[i].spread_home)

\* C30: two concurrent submit_picks_api requests of one user for one week
\* never leave the user with more than five picks in that week, nor with two
\* picks on one game.
C30_ConcurrentSubmitsKeepCap ==
    /\ Cardinality(PicksOfWeek(picks, games, 1, 1)) <= 5
    /\ \A p, q \in picks :
          (p.user_id = q.user_id /\ p.game_id = q.game_id) => p = q

====
